---- MODULE Spec2Model ----
(***************************************************************************)
(* Model of the calculation service in src/app/app.py: the submission      *)
(* handler upload_file (multipart and inline branches), the registry       *)
(* table `calculations`, the job directories under MODFLOW_FOLDER, the     *)
(* upload folder, and the result queries.                                  *)
(*                                                                         *)
(* A request handler is a pure operator from (world, request) to           *)
(* (world, response); an action applies it to the current world.           *)
(*                                                                         *)
(* Spec: submissions served one after the other, and the external worker.  *)
(* SpecQuery: one result query in an empty or an accepted world.           *)
(* SpecOps: any one operation in a world earlier requests have left.       *)
(* SpecDownload, SpecRace: downloads and submissions served by two threads *)
(* at once, one statement of the handler per step.                         *)
(***************************************************************************)
EXTENDS Integers, Sequences, FiniteSets, TLC

VARIABLES dirs, registry, uploads, pending, last, threads, env

vars == <<dirs, registry, uploads, pending, last, threads, env>>

\* the requests in flight in the process, and what the process holds besides
\* the registry and the folders
raceVars == <<threads, env>>

worldVars == <<dirs, registry, uploads>>

(***************************************************************************)
(* Bounds of the model.                                                    *)
(***************************************************************************)
NumIds == 1

MaxRecords == 2

MaxUploads == 1

\* largest layer count, substance count and time the result reader reports
MaxLay == 2

MaxSub == 1

MaxTime == 2

\* largest row count and column count the result reader reports
MaxRow == 1

\* job directories on disk while downloads are served
NumJobs == 2

\* the job ids a document may carry
Ids == 1..NumIds

\* content.get('calculation_id') of a document without that key: None
NoId == 0

\* state 0 of a new record (INSERT ... VALUES (?, 0, ?, ?))
Queued == 0

\* Path(state.log).read_text() != '200'
SuccessText == "200"

\* texts the external worker leaves in state.log
StateTexts == {"200", "400"}

(***************************************************************************)
(* Documents.  A parsed JSON value is described by what the handler asks   *)
(* of it: whether it is an object, whether its 'data' is a dict, the       *)
(* verdict of the mf schema on data.mf, data.mt (absent/falsy, or its      *)
(* verdict under the mt schema), and its calculation_id.                   *)
(***************************************************************************)
Contents ==
    {[json |-> "array", data |-> "none", mf |-> "invalid", mt |-> "absent",
      calculation_id |-> NoId]}
    \cup {[json |-> "object", data |-> "none", mf |-> "invalid", mt |-> "absent",
           calculation_id |-> c] : c \in Ids}
    \cup {[json |-> "object", data |-> "dict", mf |-> m, mt |-> t,
           calculation_id |-> c] :
              m \in {"valid", "invalid"}, t \in {"absent", "valid", "invalid"},
              c \in Ids \cup {NoId}}

\* what the schema server does during one request
NetOutcomes == {"ok", "unreachable", "garbage", "mt_unreachable"}

\* one job directory: the directory itself, configuration.json, state.log
NoDirectory == [exists |-> FALSE, config |-> <<>>, state_log |-> <<>>]

\* status and body; detail holds the numbers a rejection message lists, reads the
\* calls made on the result reader
Response(status, cid, link, message) ==
    [status |-> status, calculation_id |-> cid, link |-> link, message |-> message,
     detail |-> <<>>, reads |-> <<>>]

\* an uncaught exception in a view: Flask answers 500
ServerError == Response(500, NoId, <<>>, "Internal Server Error")

Done(w, resp) == [w |-> w, resp |-> resp]

(***************************************************************************)
(* Filesystem and registry primitives the handlers call.                   *)
(***************************************************************************)
\* os.path.exists(modflow_file)
exists_modflow_file(w, cid) == w.dirs[cid].exists /\ w.dirs[cid].config # <<>>

\* os.path.exists(os.path.join(target_directory, 'state.log'))
exists_state_log(w, cid) == w.dirs[cid].exists /\ w.dirs[cid].state_log # <<>>

\* shutil.rmtree(target_directory, ignore_errors=True)
rmtree(w, cid) == [w EXCEPT !.dirs[cid] = NoDirectory]

\* os.makedirs(target_directory, exist_ok=True)
makedirs_raises_never(w, cid) == FALSE

\* os.makedirs(target_directory) raises FileExistsError
makedirs_raises(w, cid) == w.dirs[cid].exists

\* os.makedirs(target_directory)
makedirs(w, cid) == [w EXCEPT !.dirs[cid].exists = TRUE]

\* with open(modflow_file, 'w') as outfile: json.dump(content, outfile)
write_configuration(w, cid, content) == [w EXCEPT !.dirs[cid].config = <<content>>]

\* the INSERT is never committed
insert_new_calculation_uncommitted(w, cid) == w

\* INSERT INTO calculations (calculation_id, state, ...) VALUES (?, 0, ?, ?)
insert_new_calculation(w, cid) ==
    [w EXCEPT !.registry =
        Append(@, [calculation_id |-> cid, state |-> Queued, message |-> "NULL"])]

\* str(uuid.uuid4()) + '.json': a name not in the upload folder
temp_filename(w) == CHOOSE n \in 1..(Cardinality(w.uploads) + 1) : n \notin w.uploads

\* uploaded_file.save(temp_file)
save_upload(w, name) == [w EXCEPT !.uploads = @ \cup {name}]

\* os.remove(temp_file)
remove_upload(w, name) == [w EXCEPT !.uploads = @ \ {name}]

(***************************************************************************)
(* is_valid(content): "true", "false", or "error" when an exception other  *)
(* than the ones it catches leaves the function.                           *)
(***************************************************************************)
is_valid(content, net) ==
    IF content.json # "object" \/ content.data # "dict"
    THEN "false"                                  \* AttributeError is caught
    ELSE IF net \in {"unreachable", "garbage"}
    THEN "error"                                  \* URLError / ValueError is not
    ELSE IF content.mf = "invalid"
    THEN "false"                                  \* ValidationError is caught
    ELSE IF content.mt = "absent"
    THEN "true"                                   \* if mt: is skipped
    ELSE IF net = "mt_unreachable"
    THEN "error"
    ELSE IF content.mt = "invalid"
    THEN "false"
    ELSE "true"

\* the JSON answer of the inline branch
identity(cid) == Response(200, cid, <<"/", cid>>, "")

\* redirect('/' + calculation_id) of the multipart branch
redirect(cid) == Response(302, cid, <<"/", cid>>, "")

(***************************************************************************)
(* upload_file, branch 'application/json' in request.content_type.         *)
(***************************************************************************)
\* purge_stale comparing the text of state.log with the number 200: never equal
purge_stale_numeric(w, cid) ==
    IF ~exists_modflow_file(w, cid)
    THEN Done(w, identity(cid))
    ELSE LET w1 == IF ~exists_state_log(w, cid) THEN rmtree(w, cid) ELSE w
         IN  IF ~exists_state_log(w1, cid)
             THEN Done(w1, ServerError)
             ELSE Done(rmtree(w1, cid), identity(cid))

\* lines 238-246: the two independent ifs on state.log
purge_stale(w, cid) ==
    IF ~exists_modflow_file(w, cid)
    THEN Done(w, identity(cid))
    ELSE LET w1 == IF ~exists_state_log(w, cid) THEN rmtree(w, cid) ELSE w
         IN  IF ~exists_state_log(w1, cid)
             THEN Done(w1, ServerError)           \* read_text: FileNotFoundError
             ELSE IF w1.dirs[cid].state_log[1] # SuccessText
                  THEN Done(rmtree(w1, cid), identity(cid))
                  ELSE Done(w1, identity(cid))

\* create_calculation without the call of insert_new_calculation
create_calculation_without_insert(w, cid, content) ==
    IF w.dirs[cid].exists
    THEN Done(w, ServerError)
    ELSE Done(write_configuration(makedirs(w, cid), cid, content), identity(cid))

\* lines 248-254: create the directory, write the document, insert the record
create_calculation(w, cid, content) ==
    IF w.dirs[cid].exists
    THEN Done(w, ServerError)                     \* os.makedirs: FileExistsError
    ELSE Done(insert_new_calculation(
                  write_configuration(makedirs(w, cid), cid, content), cid),
              identity(cid))

upload_inline(w, req) ==
    IF ~req.wellformed
    THEN Done(w, Response(400, NoId, <<>>, "Bad Request"))
    ELSE LET content == req.content
             v == is_valid(content, req.net)
             cid == content.calculation_id
         IN  IF v = "error" THEN Done(w, ServerError)
             ELSE IF v = "false"
             THEN Done(w, Response(422, NoId, <<>>, "Content is not valid."))
             ELSE IF cid = NoId
             THEN Done(w, ServerError)            \* os.path.join(folder, None)
             ELSE LET p == purge_stale(w, cid)
                  IN  IF p.resp.status # 200 THEN p
                      ELSE IF ~exists_modflow_file(p.w, cid)
                      THEN create_calculation(p.w, cid, content)
                      ELSE Done(p.w, identity(cid))

(***************************************************************************)
(* upload_file, branch 'multipart/form-data' in request.content_type.      *)
(***************************************************************************)
\* upload_multipart without the check of is_valid
upload_multipart_unvalidated(w, req) ==
    IF req.file = "missing"
    THEN Done(w, Response(415, NoId, <<>>, "No file uploaded"))
    ELSE IF req.file = "noname"
    THEN Done(w, Response(415, NoId, <<>>, "No selected file"))
    ELSE LET temp == temp_filename(w)
             w1 == save_upload(w, temp)
             content == req.content
             cid == content.calculation_id
         IN  IF ~req.wellformed
             THEN Done(w1, ServerError)
             ELSE IF cid = NoId
             THEN Done(w1, ServerError)
             ELSE IF exists_modflow_file(w1, cid)
             THEN Done(w1, Response(422, cid, <<>>, "already exits"))
             ELSE LET c == create_calculation(w1, cid, content)
                  IN  IF c.resp.status # 200 THEN c ELSE Done(c.w, redirect(cid))

upload_multipart(w, req) ==
    IF req.file = "missing"
    THEN Done(w, Response(415, NoId, <<>>, "No file uploaded"))
    ELSE IF req.file = "noname"
    THEN Done(w, Response(415, NoId, <<>>, "No selected file"))
    ELSE LET temp == temp_filename(w)
             w1 == save_upload(w, temp)
             content == req.content
             v == is_valid(content, req.net)
             cid == content.calculation_id
         IN  IF ~req.wellformed
             THEN Done(w1, ServerError)           \* read_json: ValueError
             ELSE IF v = "error" THEN Done(w1, ServerError)
             ELSE IF v = "false"
             THEN Done(remove_upload(w1, temp),
                       Response(422, NoId, <<>>,
                                "This JSON file does not match with the MODFLOW JSON Schema"))
             ELSE IF cid = NoId
             THEN Done(w1, ServerError)           \* os.path.join(folder, None)
             ELSE IF exists_modflow_file(w1, cid)
             THEN Done(w1, Response(422, cid, <<>>, "already exits"))
             ELSE LET c == create_calculation(w1, cid, content)
                  IN  IF c.resp.status # 200 THEN c ELSE Done(c.w, redirect(cid))

\* the view upload_file
upload_file(w, req) ==
    IF req.method = "GET"
    THEN Done(w, Response(200, NoId, <<>>, "upload.html"))
    ELSE IF req.content_type = "multipart/form-data" THEN upload_multipart(w, req)
    ELSE IF req.content_type = "application/json" THEN upload_inline(w, req)
    ELSE Done(w, ServerError)                     \* the view returns None

(***************************************************************************)
(* Requests to '/'.                                                        *)
(***************************************************************************)
NoContent == [json |-> "array", data |-> "none", mf |-> "invalid", mt |-> "absent",
              calculation_id |-> NoId]

Request(method, ctype, file, wellformed, content, net) ==
    [method |-> method, content_type |-> ctype, file |-> file,
     wellformed |-> wellformed, content |-> content, net |-> net]

InlineRequests ==
    {Request("POST", "application/json", "none", TRUE, c, n) :
        c \in Contents, n \in NetOutcomes}
    \cup {Request("POST", "application/json", "none", FALSE, NoContent, "ok")}

MultipartRequests ==
    {Request("POST", "multipart/form-data", "present", TRUE, c, n) :
        c \in Contents, n \in NetOutcomes}
    \cup {Request("POST", "multipart/form-data", f, FALSE, NoContent, "ok") :
        f \in {"missing", "noname", "present"}}

OtherRequests ==
    {Request("POST", "text/plain", "none", TRUE, NoContent, "ok"),
     Request("GET", "none", "none", TRUE, NoContent, "ok")}

(***************************************************************************)
(* Result queries.  The reader (FlopyAdapter.Read) is opened on the job    *)
(* directory per request; ext is what it reports: the list of times, the   *)
(* number of layers, the number of substances.  A path segment is a text:  *)
(* num says whether int()/float() accepts it, val is the number it gives.  *)
(***************************************************************************)
Num(v) == [num |-> TRUE, val |-> v]

NotANumber == [num |-> FALSE, val |-> 0]

RECURSIVE SortedSeq(_)
\* the elements of a set of numbers in ascending order
SortedSeq(S) ==
    IF S = {} THEN <<>>
    ELSE LET m == CHOOSE x \in S : \A y \in S : x <= y
         IN  <<m>> \o SortedSeq(S \ {m})

\* membership with a tolerance of one unit
InListTolerant(x, list) ==
    \E i \in 1..Len(list) : list[i] - x \in {-1, 0, 1}

\* totim not in times
InList(x, list) == \E i \in 1..Len(list) : list[i] = x

QueryResponse(status, message, detail, reads) ==
    [status |-> status, calculation_id |-> NoId, link |-> <<>>, message |-> message,
     detail |-> detail, reads |-> reads]

\* abort(404, 'Calculation with id: {} not found.')
CalculationNotFound == QueryResponse(404, "Calculation not found", <<>>, <<>>)

\* int(...) or float(...) raises ValueError
ConversionError == QueryResponse(500, "Internal Server Error", <<>>, <<>>)

\* 'Totim: {} not available. Available totims are: {}'
TotimNotAvailable(times, reads) == QueryResponse(404, "Totim not available", times, reads)

\* 'Layer must be less then the overall number of layers ({}).'
LayerTooLarge(nlay, reads) == QueryResponse(404, "Layer must be less", <<nlay>>, reads)

\* the layer check with > in place of >=
read_layer_slice_off_by_one(q, ext) ==
    IF ~InList(q.totim.val, ext.times)
    THEN TotimNotAvailable(ext.times, <<"read_times">>)
    ELSE IF q.layer.val > ext.nlay
    THEN LayerTooLarge(ext.nlay, <<"read_times", "read_number_of_layers">>)
    ELSE QueryResponse(200, "array", <<q.totim.val, q.layer.val>>,
                       <<"read_times", "read_number_of_layers", "read_layer">>)

\* get_results_head_drawdown: the part shared by the head and drawdown readers
read_layer_slice(q, ext) ==
    IF ~InList(q.totim.val, ext.times)
    THEN TotimNotAvailable(ext.times, <<"read_times">>)
    ELSE IF q.layer.val >= ext.nlay
    THEN LayerTooLarge(ext.nlay, <<"read_times", "read_number_of_layers">>)
    ELSE QueryResponse(200, "array", <<q.totim.val, q.layer.val>>,
                       <<"read_times", "read_number_of_layers", "read_layer">>)

get_results_head_drawdown(w, q, ext) ==
    IF ~exists_modflow_file(w, q.calculation_id) THEN CalculationNotFound
    ELSE IF ~q.totim.num \/ ~q.layer.num THEN ConversionError
    ELSE IF q.t \notin {"head", "drawdown"}
    THEN QueryResponse(404, "Type not permitted", <<>>, <<>>)
    ELSE read_layer_slice(q, ext)

get_results_budget_by_totim(w, q, ext) ==
    IF ~exists_modflow_file(w, q.calculation_id) THEN CalculationNotFound
    ELSE IF ~q.totim.num THEN ConversionError
    ELSE IF ~InList(q.totim.val, ext.times)
    THEN TotimNotAvailable(ext.times, <<"read_times">>)
    ELSE QueryResponse(200, "budget", <<q.totim.val>>,
                       <<"read_times", "read_budget_by_totim", "read_budget_by_totim">>)

get_results_budget_by_idx(w, q, ext) ==
    IF ~exists_modflow_file(w, q.calculation_id) THEN CalculationNotFound
    ELSE IF ~q.idx.num THEN ConversionError
    ELSE IF q.idx.val >= Len(ext.times)
    THEN QueryResponse(404, "TotimKey not available", <<0, Len(ext.times) - 1>>,
                       <<"read_times">>)
    ELSE QueryResponse(200, "budget", <<q.idx.val>>,
                       <<"read_times", "read_budget_by_idx", "read_budget_by_idx">>)

get_results_concentration(w, q, ext) ==
    IF ~exists_modflow_file(w, q.calculation_id) THEN CalculationNotFound
    ELSE IF ~q.layer.num \/ ~q.substance.num \/ ~q.totim.num THEN ConversionError
    ELSE IF q.substance.val >= ext.nsub
    THEN QueryResponse(404, "Substance not available", <<ext.nsub>>,
                       <<"read_number_of_substances">>)
    ELSE IF ~InList(q.totim.val, ext.times)
    THEN TotimNotAvailable(ext.times, <<"read_number_of_substances", "read_times">>)
    ELSE IF q.layer.val >= ext.nlay
    THEN LayerTooLarge(ext.nlay, <<"read_number_of_substances", "read_times",
                                   "read_number_of_layers">>)
    ELSE QueryResponse(200, "array", <<q.substance.val, q.totim.val, q.layer.val>>,
                       <<"read_number_of_substances", "read_times",
                         "read_number_of_layers", "read_layer">>)

\* get_results_time_series: no selector is compared with an extent; what
\* read_ts does with the selectors is the reader's (it may raise)
get_results_time_series(w, q, ext) ==
    IF ~exists_modflow_file(w, q.calculation_id) THEN CalculationNotFound
    ELSE IF ~q.layer.num \/ ~q.row.num \/ ~q.column.num THEN ConversionError
    ELSE IF q.t \notin {"head", "drawdown"}
    THEN QueryResponse(404, "Type not permitted", <<>>, <<>>)
    ELSE IF ext.raises
    THEN QueryResponse(500, "Internal Server Error", <<>>, <<"read_ts">>)
    ELSE QueryResponse(200, "series", <<q.layer.val, q.row.val, q.column.val>>,
                       <<"read_ts">>)

\* the rows of SELECT ... WHERE calculation_id = ?, by rowid
matching_rows(w, cid) ==
    {i \in DOMAIN w.registry : w.registry[i].calculation_id = cid}

\* get_calculation_by_id: fetchone() of a SELECT without ORDER BY, any of the
\* matching rows; 0 stands for None
get_calculation_by_id(w, cid) ==
    IF matching_rows(w, cid) = {} THEN {0} ELSE matching_rows(w, cid)

\* calculation['message'] = ... written through to the registry row
calculation_details_updating(w, q, ext, row) ==
    IF ~exists_modflow_file(w, q.calculation_id) THEN Done(w, CalculationNotFound)
    ELSE IF ~q.json THEN Done(w, QueryResponse(200, "details.html", <<>>, <<>>))
    ELSE IF row = 0 THEN Done(w, ConversionError)
    ELSE IF ext.modflow_log
    THEN Done([w EXCEPT !.registry[row].message = "modflow.log"],
              QueryResponse(200, "details", <<row, w.registry[row].state>>, <<>>))
    ELSE Done(w, QueryResponse(200, "details", <<row, w.registry[row].state>>, <<>>))

\* calculation_details and get_calculation_details_json; row is what
\* get_calculation_by_id returned. None['state'] and the item assignment into
\* an sqlite3.Row (when modflow.log is there) raise TypeError
calculation_details(w, q, ext, row) ==
    IF ~exists_modflow_file(w, q.calculation_id) THEN Done(w, CalculationNotFound)
    ELSE IF ~q.json THEN Done(w, QueryResponse(200, "details.html", <<>>, <<>>))
    ELSE IF row = 0 \/ ext.modflow_log THEN Done(w, ConversionError)
    ELSE Done(w, QueryResponse(200, "details", <<row, w.registry[row].state>>, <<>>))

\* os.listdir / os.walk of a job directory
listdir(w, cid) ==
    IF ~w.dirs[cid].exists THEN <<>>
    ELSE (IF w.dirs[cid].config # <<>> THEN <<"configuration.json">> ELSE <<>>)
         \o (IF w.dirs[cid].state_log # <<>> THEN <<"state.log">> ELSE <<>>)

InDirectory(w, cid, name) == \E i \in DOMAIN listdir(w, cid) : listdir(w, cid)[i] = name

\* get_file
get_file(w, q) ==
    IF ~InDirectory(w, q.calculation_id, q.file_name)
    THEN Done(w, QueryResponse(404, "File not found", <<>>, <<>>))
    ELSE Done(w, QueryResponse(200, "file", <<q.file_name>>, <<>>))

\* not filename.endswith('.json')
NotJson(name) == name # "configuration.json"

\* z.write(filename) for the listed names, each opened relative to the working
\* directory cwd: an archive entry is the job the file was read from and its name
zip_entries(cwd, names) ==
    [i \in 1..Len(SelectSeq(names, NotJson)) |-> <<cwd, SelectSeq(names, NotJson)[i]>>]

\* get_download_model served without another request in between: os.chdir
\* raises FileNotFoundError when the directory is not there
get_download_model(w, e, q) ==
    IF ~w.dirs[q.calculation_id].exists
    THEN [w |-> w, env |-> e, resp |-> ConversionError]
    ELSE [w |-> w, env |-> [e EXCEPT !.cwd = q.calculation_id],
          resp |-> QueryResponse(200, "zip",
                                 zip_entries(q.calculation_id,
                                             listdir(w, q.calculation_id)), <<>>)]

(***************************************************************************)
(* Query requests and what the reader reports while they are served.       *)
(***************************************************************************)
\* the lists of times a reader may report
Times == {SortedSeq(S) : S \in SUBSET (1..MaxTime)}

Extents == [times : Times, nlay : 0..MaxLay, nsub : 0..MaxSub]

TimeSegments == {NotANumber} \cup {Num(v) : v \in 0..(MaxTime + 1)}

LayerSegments == {NotANumber} \cup {Num(v) : v \in -1..MaxLay}

SubstanceSegments == {NotANumber} \cup {Num(v) : v \in -1..MaxSub}

IndexSegments == {NotANumber} \cup {Num(v) : v \in -1..MaxTime}

\* the segments of a route that the handler does not read
Unused == {Num(0)}

HeadDrawdownQueries ==
    [op : {"head_drawdown"},
     q : [calculation_id : Ids, t : {"head", "drawdown", "budget"},
          layer : LayerSegments, totim : TimeSegments, substance : Unused,
          idx : Unused],
     ext : [times : Times, nlay : 0..MaxLay, nsub : {0}]]

BudgetByTotimQueries ==
    [op : {"budget_by_totim"},
     q : [calculation_id : Ids, t : {"budget"}, layer : Unused,
          totim : TimeSegments, substance : Unused, idx : Unused],
     ext : [times : Times, nlay : {0}, nsub : {0}]]

BudgetByIdxQueries ==
    [op : {"budget_by_idx"},
     q : [calculation_id : Ids, t : {"budget"}, layer : Unused, totim : Unused,
          substance : Unused, idx : IndexSegments],
     ext : [times : Times, nlay : {0}, nsub : {0}]]

ConcentrationQueries ==
    [op : {"concentration"},
     q : [calculation_id : Ids, t : {"concentration"}, layer : LayerSegments,
          totim : TimeSegments, substance : SubstanceSegments, idx : Unused],
     ext : Extents]

RowSegments == {NotANumber} \cup {Num(v) : v \in -1..MaxRow}

\* the grid of the result files, and whether read_ts raises on the selectors
GridExtents ==
    [times : {<<>>}, nlay : 0..MaxLay, nsub : {0}, nrow : 0..MaxRow, ncol : 0..MaxRow,
     raises : BOOLEAN]

TimeSeriesQueries ==
    [op : {"time_series"},
     q : [calculation_id : Ids, t : {"head", "drawdown", "budget"},
          layer : LayerSegments, totim : Unused, substance : Unused, idx : Unused,
          row : RowSegments, column : RowSegments],
     ext : GridExtents]

Queries ==
    HeadDrawdownQueries \cup BudgetByTotimQueries \cup BudgetByIdxQueries
    \cup ConcentrationQueries \cup TimeSeriesQueries

World == [dirs |-> dirs, registry |-> registry, uploads |-> uploads]

NoPending == [op |-> "none"]

\* the document conforms to the schemas it is checked against
Conforms(content) ==
    /\ content.json = "object"
    /\ content.data = "dict"
    /\ content.mf = "valid"
    /\ content.mt # "invalid"

\* every schema the check of this document needs can be fetched
SchemasFetched(content, net) ==
    net = "ok" \/ (net = "mt_unreachable" /\ content.mt = "absent")

\* what a request to '/' delivers, as far as the handler tells requests apart
InputKind(req) ==
    IF req.method = "GET" THEN "form"
    ELSE IF req.content_type \notin {"multipart/form-data", "application/json"}
    THEN "unsupported"
    ELSE IF req.content_type = "multipart/form-data" /\ req.file # "present"
    THEN "nofile"
    ELSE IF ~req.wellformed THEN "malformed"
    ELSE IF ~SchemasFetched(req.content, req.net) THEN "unreachable"
    ELSE IF ~Conforms(req.content) THEN "nonconforming"
    ELSE "valid"

\* the last request served and its answer
Last(op, input, resp) ==
    [op |-> op, input |-> input,
     status |-> resp.status, calculation_id |-> resp.calculation_id,
     link |-> resp.link, message |-> resp.message, detail |-> resp.detail,
     reads |-> resp.reads]

\* the two requests the process serves at the same time
Threads == {1, 2}

\* a thread that serves no request. names, archive: the listing and the archive
\* of a download; purged, made, wrote: what a submission has done so far
Idle ==
    [pc |-> "idle", op |-> "none", calculation_id |-> NoId, status |-> 0,
     names |-> <<>>, archive |-> <<>>, purged |-> FALSE, made |-> FALSE, wrote |-> FALSE]

NoThreads == [t \in Threads |-> Idle]

\* the working directory the process starts in (not a job directory)
AppDirectory == NoId

\* cwd: the working directory of the process; made: the successful os.makedirs
\* per id so far; marked: the worker has written a state since the start
NoEnv == [cwd |-> AppDirectory, made |-> [i \in Ids |-> 0], marked |-> FALSE]

(***************************************************************************)
(* Actions.                                                                *)
(***************************************************************************)
Init ==
    /\ dirs = [i \in Ids |-> NoDirectory]
    /\ registry = <<>>
    /\ uploads = {}
    /\ pending = NoPending
    /\ last = Last("init", "none", Response(0, NoId, <<>>, ""))
    /\ threads = NoThreads
    /\ env = NoEnv

\* the bounds of the model on what a request may leave
WithinBounds(w) ==
    Len(w.registry) <= MaxRecords /\ Cardinality(w.uploads) <= MaxUploads

\* POST / with an inline document
PostInline ==
    \E req \in InlineRequests : \E r \in {upload_file(World, req)} :
        /\ WithinBounds(r.w)
        /\ dirs' = r.w.dirs
        /\ registry' = r.w.registry
        /\ uploads' = r.w.uploads
        /\ last' = Last("inline", InputKind(req), r.resp)
        /\ UNCHANGED <<pending, raceVars>>

\* POST / with an uploaded file
PostMultipart ==
    \E req \in MultipartRequests : \E r \in {upload_file(World, req)} :
        /\ WithinBounds(r.w)
        /\ dirs' = r.w.dirs
        /\ registry' = r.w.registry
        /\ uploads' = r.w.uploads
        /\ last' = Last("multipart", InputKind(req), r.resp)
        /\ UNCHANGED <<pending, raceVars>>

\* POST / with another content type, and GET /
OtherUpload ==
    \E req \in OtherRequests : \E r \in {upload_file(World, req)} :
        /\ WithinBounds(r.w)
        /\ dirs' = r.w.dirs
        /\ registry' = r.w.registry
        /\ uploads' = r.w.uploads
        /\ last' = Last("other", InputKind(req), r.resp)
        /\ UNCHANGED <<pending, raceVars>>

\* the external worker records the final state of a job in its directory
WorkerWritesState ==
    \E cid \in Ids, text \in StateTexts :
        /\ dirs[cid].exists
        /\ dirs' = [dirs EXCEPT ![cid].state_log = <<text>>]
        /\ last' = Last("worker", "none", Response(0, cid, <<>>, text))
        /\ UNCHANGED <<registry, uploads, pending, raceVars>>

Next == PostInline \/ PostMultipart \/ OtherUpload \/ WorkerWritesState

Spec == Init /\ [][Next]_vars

(***************************************************************************)
(* The queries: the request and the reader's report are drawn at the       *)
(* start, before or after job 1 was accepted; the action serves the        *)
(* request.                                                                *)
(***************************************************************************)
EmptyWorld == [dirs |-> [i \in Ids |-> NoDirectory], registry |-> <<>>, uploads |-> {}]

FirstDocument ==
    [json |-> "object", data |-> "dict", mf |-> "valid", mt |-> "absent",
     calculation_id |-> 1]

AcceptedWorld ==
    upload_file(EmptyWorld,
                Request("POST", "application/json", "none", TRUE, FirstDocument, "ok")).w

InitQuery ==
    /\ \E w \in {EmptyWorld, AcceptedWorld} :
            dirs = w.dirs /\ registry = w.registry /\ uploads = w.uploads
    /\ pending \in Queries
    /\ last = Last("init", "none", Response(0, NoId, <<>>, ""))
    /\ threads = NoThreads
    /\ env = NoEnv

Serve(op, resp) ==
    /\ pending.op = op
    /\ last.op = "init"
    /\ last' = Last(op, "query", resp)
    /\ UNCHANGED <<worldVars, pending, raceVars>>

GetResultsHeadDrawdown ==
    Serve("head_drawdown", get_results_head_drawdown(World, pending.q, pending.ext))

GetResultsBudgetByTotim ==
    Serve("budget_by_totim", get_results_budget_by_totim(World, pending.q, pending.ext))

GetResultsBudgetByIdx ==
    Serve("budget_by_idx", get_results_budget_by_idx(World, pending.q, pending.ext))

GetResultsConcentration ==
    Serve("concentration", get_results_concentration(World, pending.q, pending.ext))

GetResultsTimeSeries ==
    Serve("time_series", get_results_time_series(World, pending.q, pending.ext))

NextQuery ==
    \/ GetResultsHeadDrawdown
    \/ GetResultsBudgetByTotim
    \/ GetResultsBudgetByIdx
    \/ GetResultsConcentration
    \/ GetResultsTimeSeries

SpecQuery == InitQuery /\ [][NextQuery]_vars

(***************************************************************************)
(* Every operation of the service, served once in a world earlier requests *)
(* have left.                                                              *)
(***************************************************************************)
\* the worker has recorded a final state for job 1
MarkedWorld(text) == [AcceptedWorld EXCEPT !.dirs[1].state_log = <<text>>]

\* job 1 failed and was submitted again
ResubmittedWorld ==
    upload_file(MarkedWorld("400"),
                Request("POST", "application/json", "none", TRUE, FirstDocument, "ok")).w

OpsWorlds ==
    {EmptyWorld, AcceptedWorld, ResubmittedWorld} \cup {MarkedWorld(t) : t \in StateTexts}

FileNames == {"configuration.json", "state.log", "mf.list"}

DetailsQueries ==
    [op : {"details"}, q : [calculation_id : Ids, json : BOOLEAN],
     ext : [modflow_log : BOOLEAN]]

FileQueries == [op : {"file"}, q : [calculation_id : Ids, file_name : FileNames]]

DownloadQueries == [op : {"download"}, q : [calculation_id : Ids]]

Uploads ==
    [op : {"upload"}, req : InlineRequests \cup MultipartRequests \cup OtherRequests]

InitOps ==
    /\ \/ /\ pending \in Queries
          /\ \E w \in {EmptyWorld, AcceptedWorld} :
                dirs = w.dirs /\ registry = w.registry /\ uploads = w.uploads
       \/ /\ pending \in DetailsQueries \cup FileQueries \cup DownloadQueries \cup Uploads
          /\ \E w \in OpsWorlds :
                dirs = w.dirs /\ registry = w.registry /\ uploads = w.uploads
    /\ last = Last("init", "none", Response(0, NoId, <<>>, ""))
    /\ threads = NoThreads
    /\ env = NoEnv

GetCalculationDetails ==
    /\ pending.op = "details"
    /\ last.op = "init"
    /\ \E row \in get_calculation_by_id(World, pending.q.calculation_id) :
       \E r \in {calculation_details(World, pending.q, pending.ext, row)} :
            /\ dirs' = r.w.dirs
            /\ registry' = r.w.registry
            /\ uploads' = r.w.uploads
            /\ last' = Last("details", "query", r.resp)
    /\ UNCHANGED <<pending, raceVars>>

GetFile ==
    /\ pending.op = "file"
    /\ last.op = "init"
    /\ \E r \in {get_file(World, pending.q)} :
            /\ dirs' = r.w.dirs
            /\ registry' = r.w.registry
            /\ uploads' = r.w.uploads
            /\ last' = Last("file", "query", r.resp)
    /\ UNCHANGED <<pending, raceVars>>

GetDownloadModel ==
    /\ pending.op = "download"
    /\ last.op = "init"
    /\ \E r \in {get_download_model(World, env, pending.q)} :
            /\ dirs' = r.w.dirs
            /\ registry' = r.w.registry
            /\ uploads' = r.w.uploads
            /\ env' = r.env
            /\ last' = Last("download", "query", r.resp)
    /\ UNCHANGED <<pending, threads>>

UploadFile ==
    /\ pending.op = "upload"
    /\ last.op = "init"
    /\ \E r \in {upload_file(World, pending.req)} :
            /\ dirs' = r.w.dirs
            /\ registry' = r.w.registry
            /\ uploads' = r.w.uploads
            /\ last' = Last("upload", InputKind(pending.req), r.resp)
    /\ UNCHANGED <<pending, raceVars>>

NextOps ==
    \/ NextQuery
    \/ GetCalculationDetails
    \/ GetFile
    \/ GetDownloadModel
    \/ UploadFile

SpecOps == InitOps /\ [][NextOps]_vars

(***************************************************************************)
(* Downloads served by two threads of one process, statement by statement. *)
(***************************************************************************)
Jobs == 1..NumJobs

\* the directory of an accepted job, before and after the worker has finished
JobDirectories(j) ==
    {[exists |-> TRUE, config |-> <<[FirstDocument EXCEPT !.calculation_id = j]>>,
      state_log |-> m] : m \in {<<>>} \cup {<<t>> : t \in StateTexts}}

InitDownload ==
    /\ dirs \in [Jobs -> UNION {JobDirectories(j) : j \in Jobs}]
    /\ \A j \in Jobs : dirs[j] \in JobDirectories(j)
    /\ registry = [j \in Jobs |-> [calculation_id |-> j, state |-> Queued,
                                    message |-> "NULL"]]
    /\ uploads = {}
    /\ pending = NoPending
    /\ last = Last("init", "none", Response(0, NoId, <<>>, ""))
    /\ threads = NoThreads
    /\ env = NoEnv

\* a thread takes GET /<calculation_id>/download
StartDownload(t) ==
    /\ threads[t].pc = "idle"
    /\ \E j \in Jobs :
            threads' = [threads EXCEPT ![t] =
                            [Idle EXCEPT !.pc = "chdir", !.op = "download",
                                         !.calculation_id = j]]
    /\ UNCHANGED <<worldVars, pending, last, env>>

\* os.chdir(os.path.join(app.config['MODFLOW_FOLDER'], calculation_id)): the
\* working directory is the one of the process
Chdir(t) ==
    /\ threads[t].pc = "chdir"
    /\ IF dirs[threads[t].calculation_id].exists
       THEN /\ env' = [env EXCEPT !.cwd = threads[t].calculation_id]
            /\ threads' = [threads EXCEPT ![t].pc = "walk"]
       ELSE /\ threads' = [threads EXCEPT ![t].pc = "done", ![t].status = 500]
            /\ UNCHANGED env
    /\ UNCHANGED <<worldVars, pending, last>>

\* for root, dirs, files in os.walk("."): the listing of the working directory
Walk(t) ==
    /\ threads[t].pc = "walk"
    /\ threads' = [threads EXCEPT ![t].pc = "write",
                                  ![t].names = SelectSeq(listdir(World, env.cwd), NotJson)]
    /\ UNCHANGED <<worldVars, pending, last, env>>

\* z.write(filename): the name is opened in the working directory; open raises
\* FileNotFoundError when the name is not there
ZipWrite(t) ==
    /\ threads[t].pc = "write"
    /\ threads[t].names # <<>>
    /\ IF InDirectory(World, env.cwd, Head(threads[t].names))
       THEN threads' = [threads EXCEPT
                            ![t].names = Tail(@),
                            ![t].archive = @ \o zip_entries(env.cwd,
                                                           <<Head(threads[t].names)>>)]
       ELSE threads' = [threads EXCEPT ![t].pc = "done", ![t].status = 500]
    /\ UNCHANGED <<worldVars, pending, last, env>>

\* return send_file(data, ...)
SendFile(t) ==
    /\ threads[t].pc = "write"
    /\ threads[t].names = <<>>
    /\ threads' = [threads EXCEPT ![t].pc = "done", ![t].status = 200]
    /\ UNCHANGED <<worldVars, pending, last, env>>

NextDownload ==
    \E t \in Threads :
        StartDownload(t) \/ Chdir(t) \/ Walk(t) \/ ZipWrite(t) \/ SendFile(t)

SpecDownload == InitDownload /\ [][NextDownload]_vars

(***************************************************************************)
(* Submissions served by two threads of one process, statement by          *)
(* statement, in a world earlier requests have left. The documents are     *)
(* valid: validation has no effect on the folders or the registry.         *)
(***************************************************************************)
InitRace ==
    /\ \E w \in OpsWorlds :
            /\ dirs = w.dirs /\ registry = w.registry /\ uploads = w.uploads
            /\ env = [NoEnv EXCEPT !.made = [i \in Ids |-> Len(SelectSeq(w.registry,
                                        LAMBDA r : r.calculation_id = i))]]
    /\ pending = NoPending
    /\ last = Last("init", "none", Response(0, NoId, <<>>, ""))
    /\ threads = NoThreads

Document(cid) == [FirstDocument EXCEPT !.calculation_id = cid]

At(t, pc) == threads[t].pc = pc

Goto(t, pc) == threads' = [threads EXCEPT ![t].pc = pc]

Answer(t, status) == threads' = [threads EXCEPT ![t].pc = "done", ![t].status = status]

\* a thread takes POST / with a valid inline document (229-236)
StartInline(t) ==
    /\ At(t, "idle")
    /\ \E cid \in Ids :
            threads' = [threads EXCEPT ![t] =
                            [Idle EXCEPT !.pc = "exists238", !.op = "inline",
                                         !.calculation_id = cid]]
    /\ UNCHANGED <<worldVars, pending, last, env>>

\* a thread takes POST / with a valid file: the file is saved (203-215)
StartMultipart(t) ==
    /\ At(t, "idle")
    /\ Cardinality(uploads) < MaxUploads
    /\ uploads' = uploads \cup {temp_filename(World)}
    /\ \E cid \in Ids :
            threads' = [threads EXCEPT ![t] =
                            [Idle EXCEPT !.pc = "exists217", !.op = "multipart",
                                         !.calculation_id = cid]]
    /\ UNCHANGED <<dirs, registry, pending, last, env>>

\* 217-218: if os.path.exists(modflow_file): abort(422, ...)
Exists217(t) ==
    /\ At(t, "exists217")
    /\ IF exists_modflow_file(World, threads[t].calculation_id)
       THEN Answer(t, 422)
       ELSE Goto(t, "makedirs")
    /\ UNCHANGED <<worldVars, pending, last, env>>

\* 238: if os.path.exists(modflow_file):
Exists238(t) ==
    /\ At(t, "exists238")
    /\ IF exists_modflow_file(World, threads[t].calculation_id)
       THEN Goto(t, "exists240")
       ELSE Goto(t, "exists248")
    /\ UNCHANGED <<worldVars, pending, last, env>>

\* 240: if not os.path.exists(os.path.join(target_directory, 'state.log')):
Exists240(t) ==
    /\ At(t, "exists240")
    /\ IF exists_state_log(World, threads[t].calculation_id)
       THEN Goto(t, "read244")
       ELSE Goto(t, "rmtree242")
    /\ UNCHANGED <<worldVars, pending, last, env>>

\* 242 and 246: shutil.rmtree(target_directory, ignore_errors=True)
Rmtree(t) ==
    /\ At(t, "rmtree242") \/ At(t, "rmtree246")
    /\ dirs' = rmtree(World, threads[t].calculation_id).dirs
    /\ threads' = [threads EXCEPT
                        ![t].pc = IF At(t, "rmtree242") THEN "read244" ELSE "exists248",
                        ![t].purged = TRUE]
    /\ UNCHANGED <<registry, uploads, pending, last, env>>

\* 244: if Path(...).read_text() != '200': read_text raises FileNotFoundError
\* when state.log is not there
Read244(t) ==
    /\ At(t, "read244")
    /\ IF ~exists_state_log(World, threads[t].calculation_id)
       THEN Answer(t, 500)
       ELSE IF dirs[threads[t].calculation_id].state_log # <<SuccessText>>
       THEN Goto(t, "rmtree246")
       ELSE Goto(t, "exists248")
    /\ UNCHANGED <<worldVars, pending, last, env>>

\* 248: if not os.path.exists(modflow_file): ... else the identity is returned
Exists248(t) ==
    /\ At(t, "exists248")
    /\ IF exists_modflow_file(World, threads[t].calculation_id)
       THEN Answer(t, 200)
       ELSE Goto(t, "makedirs")
    /\ UNCHANGED <<worldVars, pending, last, env>>

\* 220 and 250: os.makedirs(target_directory)
Makedirs(t) ==
    /\ At(t, "makedirs")
    /\ IF makedirs_raises(World, threads[t].calculation_id)
       THEN /\ Answer(t, 500)
            /\ UNCHANGED <<dirs, env>>
       ELSE /\ dirs' = makedirs(World, threads[t].calculation_id).dirs
            /\ env' = [env EXCEPT !.made[threads[t].calculation_id] = @ + 1]
            /\ threads' = [threads EXCEPT ![t].pc = "write", ![t].made = TRUE]
    /\ UNCHANGED <<registry, uploads, pending, last>>

\* 221-222 and 251-252: with open(modflow_file, 'w') as outfile: json.dump(...);
\* open raises FileNotFoundError when the directory is gone
WriteConfiguration(t) ==
    /\ At(t, "write")
    /\ IF ~dirs[threads[t].calculation_id].exists
       THEN /\ Answer(t, 500)
            /\ UNCHANGED dirs
       ELSE /\ dirs' = write_configuration(World, threads[t].calculation_id,
                                          Document(threads[t].calculation_id)).dirs
            /\ threads' = [threads EXCEPT ![t].pc = "insert", ![t].wrote = TRUE]
    /\ UNCHANGED <<registry, uploads, pending, last, env>>

\* 224-226 and 254-260: insert_new_calculation(calculation_id) and the answer
Insert(t) ==
    /\ At(t, "insert")
    /\ registry' = insert_new_calculation(World, threads[t].calculation_id).registry
    /\ Answer(t, IF threads[t].op = "inline" THEN 200 ELSE 302)
    /\ UNCHANGED <<dirs, uploads, pending, last, env>>

\* the external worker records a final state while requests are served
WorkerMarks ==
    /\ \E cid \in Ids, text \in StateTexts :
            /\ dirs[cid].exists
            /\ dirs' = [dirs EXCEPT ![cid].state_log = <<text>>]
    /\ env' = [env EXCEPT !.marked = TRUE]
    /\ UNCHANGED <<registry, uploads, pending, last, threads>>

NextRace ==
    \/ \E t \in Threads :
            \/ StartInline(t) \/ StartMultipart(t) \/ Exists217(t) \/ Exists238(t)
            \/ Exists240(t) \/ Rmtree(t) \/ Read244(t) \/ Exists248(t)
            \/ Makedirs(t) \/ WriteConfiguration(t) \/ Insert(t)
    \/ WorkerMarks

SpecRace == InitRace /\ [][NextRace]_vars

(***************************************************************************)
(* Vocabulary of the properties.                                           *)
(***************************************************************************)
\* the number of registry records of a job id
CountFor(reg, cid) == Cardinality({i \in DOMAIN reg : reg[i].calculation_id = cid})

\* a well-formed, conforming document for a job id, with the validator in reach
ValidFor(req, cid) ==
    /\ req.method = "POST"
    /\ req.wellformed
    /\ Conforms(req.content)
    /\ SchemasFetched(req.content, req.net)
    /\ req.content.calculation_id = cid

Accepted(resp) == resp.status \in {200, 302}

ClientError(resp) == resp.status >= 400 /\ resp.status <= 499

IsIdentity(resp, cid) ==
    resp.status = 200 /\ resp.calculation_id = cid /\ resp.link = <<"/", cid>>

QueuedRecord(cid) == [calculation_id |-> cid, state |-> 0, message |-> "NULL"]

\* C1: for a job id with no directory and no registry record, a valid inline
\* submission leaves exactly one record for the id, at state Queued, and a
\* directory holding exactly the configuration document, touches no other job,
\* and answers with the identity (id and link '/'+id).
C1_FreshSubmission ==
    \A cid \in Ids : \A req \in InlineRequests :
        (ValidFor(req, cid) /\ ~dirs[cid].exists /\ CountFor(registry, cid) = 0)
        => \A r \in {upload_file(World, req)} :
               /\ IsIdentity(r.resp, cid)
               /\ r.w.registry = Append(registry, QueuedRecord(cid))
               /\ CountFor(r.w.registry, cid) = 1
               /\ r.w.dirs[cid] = [exists |-> TRUE, config |-> <<req.content>>,
                                   state_log |-> <<>>]
               /\ \A other \in Ids \ {cid} : r.w.dirs[other] = dirs[other]

\* a fresh id was just accepted inline
C1_Witness ==
    /\ last.op = "inline"
    /\ last.status = 200
    /\ last.calculation_id \in Ids
    /\ CountFor(registry, last.calculation_id) = 1
    /\ dirs[last.calculation_id].config # <<>>
    /\ dirs[last.calculation_id].state_log = <<>>

\* C2: a valid inline resubmission of an id whose directory holds a
\* configuration file and a state.log equal to '200' changes neither the registry
\* nor any directory and answers with the identity of the id; as this holds in
\* every reachable state, it holds for any number of such resubmissions.
C2_SuccessResubmissionIdempotent ==
    \A cid \in Ids : \A req \in InlineRequests :
        (ValidFor(req, cid) /\ dirs[cid].config # <<>> /\ dirs[cid].state_log = <<"200">>)
        => \A r \in {upload_file(World, req)} :
               /\ IsIdentity(r.resp, cid)
               /\ r.w.registry = registry
               /\ r.w.dirs = dirs
               /\ upload_file(r.w, req) = r

\* a job marked '200' was just resubmitted inline and still has its one record
C2_Witness ==
    /\ last.op = "inline"
    /\ last.status = 200
    /\ last.calculation_id \in Ids
    /\ dirs[last.calculation_id].state_log = <<"200">>
    /\ dirs[last.calculation_id].config # <<>>
    /\ CountFor(registry, last.calculation_id) = 1

\* C3: a valid inline resubmission of an id whose directory holds a
\* configuration file and no state.log, or a state.log other than '200', leaves
\* the directory holding only the new document, appends one Queued record and
\* keeps every earlier record, and answers with the identity.
C3_StaleResubmissionRecreates ==
    \A cid \in Ids : \A req \in InlineRequests :
        (ValidFor(req, cid) /\ dirs[cid].config # <<>> /\ dirs[cid].state_log # <<"200">>)
        => \A r \in {upload_file(World, req)} :
               /\ IsIdentity(r.resp, cid)
               /\ r.w.registry = Append(registry, QueuedRecord(cid))
               /\ r.w.dirs[cid] = [exists |-> TRUE, config |-> <<req.content>>,
                                   state_log |-> <<>>]

\* the half of C3 the code keeps: the same with a state.log other than '200'
C3_FailedMarkerRecreates ==
    \A cid \in Ids : \A req \in InlineRequests :
        (ValidFor(req, cid) /\ dirs[cid].config # <<>>
            /\ dirs[cid].state_log \notin {<<>>, <<"200">>})
        => \A r \in {upload_file(World, req)} :
               /\ IsIdentity(r.resp, cid)
               /\ r.w.registry = Append(registry, QueuedRecord(cid))
               /\ r.w.dirs[cid] = [exists |-> TRUE, config |-> <<req.content>>,
                                   state_log |-> <<>>]

\* C4: right after a fresh id was accepted inline (one record, no state.log),
\* submitting the identical document again answers with the identical link and
\* leaves the id with one record.
C4_ImmediateResubmission ==
    \A cid \in Ids : \A req \in InlineRequests :
        (/\ last.op = "inline" /\ last.status = 200 /\ last.calculation_id = cid
         /\ CountFor(registry, cid) = 1
         /\ dirs[cid].state_log = <<>>
         /\ ValidFor(req, cid) /\ dirs[cid].config = <<req.content>>)
        => \A r \in {upload_file(World, req)} :
               /\ r.resp.status = 200
               /\ r.resp.link = last.link
               /\ CountFor(r.w.registry, cid) = 1

\* C5: a submission that fails validation (malformed document, schema
\* violation of mf or of a present mt, validator out of reach) is rejected with
\* a client error, and inserts no record and creates or purges no directory.
C5_ValidationFailureRejected ==
    [][(last'.op \in {"inline", "multipart"}
            /\ last'.input \in {"malformed", "nonconforming", "unreachable"})
        => (ClientError(last') /\ registry' = registry /\ dirs' = dirs)]_vars

\* the half of C5 the code keeps: no validation failure changes the registry
\* or a job directory
C5_ValidationFailureNoEffect ==
    [][(last'.op \in {"inline", "multipart"}
            /\ last'.input \in {"malformed", "nonconforming", "unreachable"})
        => (~Accepted(last') /\ registry' = registry /\ dirs' = dirs)]_vars

\* the uploaded-file delivery of the document of an inline request
AsUpload(req) == [req EXCEPT !.content_type = "multipart/form-data", !.file = "present"]

\* the document of an inline request fares the same when delivered as a file
SameOutcome(req) ==
    \A ri \in {upload_file(World, req)} : \A rm \in {upload_file(World, AsUpload(req))} :
        /\ Accepted(ri.resp) = Accepted(rm.resp)
        /\ ri.w.registry = rm.w.registry
        /\ ri.w.dirs = rm.w.dirs

\* the document passes validation and its id already has a configuration file
ResubmitsExisting(req) ==
    \E cid \in Ids : ValidFor(req, cid) /\ dirs[cid].config # <<>>

C7_NoPartialState ==
    [][(last'.op \in {"inline", "multipart"} /\ ~Accepted(last'))
        => /\ uploads' \subseteq uploads
           /\ \A cid \in Ids :
                /\ dirs'[cid].exists => dirs'[cid].config # <<>>
                /\ dirs'[cid].config # <<>> => CountFor(registry', cid) >= 1]_vars

(***************************************************************************)
(* Properties of the result queries, under SpecQuery.                      *)
(***************************************************************************)
\* the pending query of an existing job was served, its segments being numbers
ServedQuery(op) ==
    /\ pending.op = op
    /\ last.op = op
    /\ dirs[pending.q.calculation_id].config # <<>>
    /\ pending.q.layer.num /\ pending.q.totim.num
    /\ pending.q.substance.num /\ pending.q.idx.num

\* one of the queries that select by time was served
ServedTimeQuery ==
    \/ ServedQuery("head_drawdown") /\ pending.q.t \in {"head", "drawdown"}
    \/ ServedQuery("budget_by_totim")
    \/ ServedQuery("concentration")

ReportedTimes == {pending.ext.times[i] : i \in DOMAIN pending.ext.times}

ArrayReads == {"read_layer", "read_budget_by_totim", "read_budget_by_idx"}

NoArrayRead == \A i \in DOMAIN last.reads : last.reads[i] \notin ArrayReads

SomeArrayRead == \E i \in DOMAIN last.reads : last.reads[i] \in ArrayReads

RejectedWith(detail) == last.status = 404 /\ last.detail = detail /\ NoArrayRead

\* C8 as stated: a layer-slice, budget-at-time or concentration query whose time
\* is not in the reader's time list is rejected with 404 listing exactly that
\* list, and reads no array, whatever the other selectors are.
C8_UnknownTimeListsTimes ==
    (ServedTimeQuery /\ pending.q.totim.val \notin ReportedTimes)
    => RejectedWith(pending.ext.times)

\* C8 as amended: the same, except that a concentration query whose substance
\* is at or above the substance count is rejected with 404 carrying that count;
\* in every case the request is rejected with 404 and no array is read.
C8_UnknownTimeRejected ==
    (ServedTimeQuery /\ pending.q.totim.val \notin ReportedTimes)
    => IF pending.op = "concentration" /\ pending.q.substance.val >= pending.ext.nsub
       THEN RejectedWith(<<pending.ext.nsub>>)
       ELSE RejectedWith(pending.ext.times)

\* a concentration query with an admitted substance and a time between two
\* reported times was rejected with the list of times
C8_Witness ==
    /\ ServedQuery("concentration")
    /\ pending.q.substance.val >= 0
    /\ pending.q.substance.val < pending.ext.nsub
    /\ Len(pending.ext.times) >= 1
    /\ pending.q.totim.val \notin ReportedTimes
    /\ last.status = 404
    /\ last.detail = pending.ext.times

\* the layer check of the pending query is reached: the checks before it passed
LayerChecked ==
    /\ \/ ServedQuery("head_drawdown") /\ pending.q.t \in {"head", "drawdown"}
       \/ /\ ServedQuery("concentration")
          /\ pending.q.substance.val >= 0
          /\ pending.q.substance.val < pending.ext.nsub
    /\ pending.q.totim.val \in ReportedTimes

\* C9: in the layer-slice and concentration queries a layer is admitted iff
\* 0 <= layer < layer count and a substance iff 0 <= substance < substance
\* count; every other value is rejected with 404 carrying the count and no
\* array is read.
C9_LayerSubstanceBounds ==
    /\ LayerChecked
        => IF 0 <= pending.q.layer.val /\ pending.q.layer.val < pending.ext.nlay
           THEN last.status = 200 /\ SomeArrayRead
           ELSE RejectedWith(<<pending.ext.nlay>>)
    /\ (ServedQuery("concentration")
            /\ ~(0 <= pending.q.substance.val
                    /\ pending.q.substance.val < pending.ext.nsub))
        => RejectedWith(<<pending.ext.nsub>>)

\* the half of C9 the code keeps: the upper bounds
C9_UpperBounds ==
    /\ (LayerChecked /\ pending.q.layer.val >= pending.ext.nlay)
        => RejectedWith(<<pending.ext.nlay>>)
    /\ (ServedQuery("concentration") /\ pending.q.substance.val >= pending.ext.nsub)
        => RejectedWith(<<pending.ext.nsub>>)

\* C10: the budget-at-index query admits an index iff 0 <= index < length of
\* the time list; every other index is rejected with 404 carrying the range
\* [0, length - 1] and no budget is read.
C10_IndexBounds ==
    ServedQuery("budget_by_idx")
    => IF 0 <= pending.q.idx.val /\ pending.q.idx.val < Len(pending.ext.times)
       THEN last.status = 200 /\ SomeArrayRead
       ELSE RejectedWith(<<0, Len(pending.ext.times) - 1>>)

\* the half of C10 the code keeps: the upper bound, also of an empty series
C10_UpperBound ==
    (ServedQuery("budget_by_idx") /\ pending.q.idx.val >= Len(pending.ext.times))
    => RejectedWith(<<0, Len(pending.ext.times) - 1>>)

InRange(v, extent) == 0 <= v /\ v < extent

\* a time-series query with numeric selectors and a permitted type was served
ServedTimeSeries ==
    /\ ServedQuery("time_series")
    /\ pending.q.row.num /\ pending.q.column.num
    /\ pending.q.t \in {"head", "drawdown"}

TimeSeriesRead == \E i \in DOMAIN last.reads : last.reads[i] = "read_ts"

\* C11: a time-series query whose layer, row or column is outside
\* 0 <= requested < extent is rejected with 404 before the series is read.
C11_TimeSeriesBounds ==
    (ServedTimeSeries
        /\ ~(/\ InRange(pending.q.layer.val, pending.ext.nlay)
             /\ InRange(pending.q.row.val, pending.ext.nrow)
             /\ InRange(pending.q.column.val, pending.ext.ncol)))
    => last.status = 404 /\ ~TimeSeriesRead

\* C12: the concentration query validates substance, then time, then layer: an
\* out-of-range substance gets the substance rejection whatever time and layer
\* are, an unknown time with a valid substance gets the time rejection whatever
\* the layer is, and the array is read only when all three are valid.
C12_ConcentrationOrder ==
    ServedQuery("concentration")
    => /\ ~InRange(pending.q.substance.val, pending.ext.nsub)
            => RejectedWith(<<pending.ext.nsub>>)
       /\ (InRange(pending.q.substance.val, pending.ext.nsub)
                /\ pending.q.totim.val \notin ReportedTimes)
            => RejectedWith(pending.ext.times)
       /\ SomeArrayRead
            => /\ InRange(pending.q.substance.val, pending.ext.nsub)
               /\ pending.q.totim.val \in ReportedTimes
               /\ InRange(pending.q.layer.val, pending.ext.nlay)

\* the order C12 describes, for the comparisons the code makes (at or above the
\* count): substance, then time, then layer, then the read
C12_OrderOfUpperBounds ==
    ServedQuery("concentration")
    => /\ pending.q.substance.val >= pending.ext.nsub
            => RejectedWith(<<pending.ext.nsub>>)
       /\ (pending.q.substance.val < pending.ext.nsub
                /\ pending.q.totim.val \notin ReportedTimes)
            => RejectedWith(pending.ext.times)
       /\ SomeArrayRead
            => /\ pending.q.substance.val < pending.ext.nsub
               /\ pending.q.totim.val \in ReportedTimes
               /\ pending.q.layer.val < pending.ext.nlay

\* a layer-slice query was served whose layer segment is a number
ServedLayerSlice ==
    /\ pending.op = "head_drawdown"
    /\ last.op = "head_drawdown"
    /\ pending.q.layer.num

\* C13: a layer-slice query whose layer is at or above the layer count is
\* rejected and reads no array, whether its time is in the list or not; the
\* checks come in the order result type, time, layer.
C13_LayerRejectedBeforeRead ==
    /\ (ServedLayerSlice /\ pending.q.layer.val >= pending.ext.nlay)
        => /\ NoArrayRead
           /\ last.status # 200
           /\ pending.q.totim.num => last.status = 404
    /\ ServedQuery("head_drawdown")
        => IF pending.q.t \notin {"head", "drawdown"}
           THEN last.status = 404 /\ last.message = "Type not permitted"
                    /\ last.reads = <<>>
           ELSE IF pending.q.totim.val \notin ReportedTimes
           THEN RejectedWith(pending.ext.times)
           ELSE pending.q.layer.val >= pending.ext.nlay
                    => RejectedWith(<<pending.ext.nlay>>)

\* a layer equal to the layer count, with a time of the list, was rejected with
\* the layer count
C13_Witness ==
    /\ ServedQuery("head_drawdown")
    /\ pending.q.t \in {"head", "drawdown"}
    /\ pending.q.totim.val \in ReportedTimes
    /\ pending.q.layer.val = pending.ext.nlay
    /\ last.status = 404
    /\ last.detail = <<pending.ext.nlay>>

QueryOps ==
    {"details", "file", "download", "head_drawdown", "time_series",
     "budget_by_totim", "budget_by_idx", "concentration"}

IsPrefix(a, b) == Len(a) <= Len(b) /\ SubSeq(b, 1, Len(a)) = a

\* C14: every query operation (job details, file content, layer slice, time
\* series, budget by time, budget by index, concentration, download), answered
\* or rejected, leaves the registry and every job directory as they were; no
\* operation changes or removes a record the registry already held.
C14_QueriesChangeNothing ==
    [][/\ pending.op \in QueryOps => (registry' = registry /\ dirs' = dirs)
       /\ IsPrefix(registry, registry')]_vars

\* the details of a job with two records were served from the registry
C14_Witness ==
    /\ last.op = "details"
    /\ last.message = "details"
    /\ last.status = 200
    /\ Len(registry) = 2

\* C19: when an id has an older and a fresh record, the record the job-details
\* query gets from get_calculation_by_id is the most recently inserted one.
C19_FreshRecordReturned ==
    (last.op = "details" /\ last.message = "details"
        /\ CountFor(registry, pending.q.calculation_id) >= 2)
    => \A i \in matching_rows(World, pending.q.calculation_id) : i <= last.detail[1]

\* thread t has answered a download
Downloaded(t) == threads[t].op = "download" /\ threads[t].pc = "done"

\* the archive of a job: every file of its directory that is not a
\* configuration file, and nothing else
ArchiveOf(j) == zip_entries(j, listdir(World, j))

\* C15: a download of job A, also while downloads of other jobs are served by
\* the same process, answers with an archive that holds every non-configuration
\* file of A's directory, no .json file and no file of another job.
C15_DownloadIsolated ==
    \A t \in Threads :
        Downloaded(t)
        => /\ threads[t].status = 200
           /\ threads[t].archive = ArchiveOf(threads[t].calculation_id)

\* what the code keeps of C15: no archive holds a .json file, and a download
\* served while no other request is in the process is complete and of its job
C15_DownloadAlone ==
    \A t \in Threads :
        Downloaded(t)
        => /\ \A i \in DOMAIN threads[t].archive : NotJson(threads[t].archive[i][2])
           /\ (\A u \in Threads \ {t} : threads[u].pc = "idle")
                => /\ threads[t].status = 200
                   /\ threads[t].archive = ArchiveOf(threads[t].calculation_id)

\* thread t serves an inline submission of cid and is past the check of line 248
InCreation(t, cid) ==
    /\ threads[t].op = "inline"
    /\ threads[t].calculation_id = cid
    /\ threads[t].pc \in {"makedirs", "write", "insert"}

\* C16: two concurrent inline submissions of one id can both find the
\* configuration file absent and both be in the creation step (C16_Witness);
\* whenever they are, and neither has purged the directory, at most one of
\* them has created it.
C16_BothInCreation ==
    \A cid \in Ids : \A t, u \in Threads :
        (t # u /\ InCreation(t, cid) /\ InCreation(u, cid)
            /\ ~threads[t].purged /\ ~threads[u].purged)
        => ~(threads[t].made /\ threads[u].made)

\* both requests have found the configuration file of the id absent and stand
\* before os.makedirs
C16_Witness ==
    \E cid \in Ids :
        /\ ~exists_modflow_file(World, cid)
        /\ \A t \in Threads : InCreation(t, cid) /\ At(t, "makedirs")

\* the submission of thread t has purged the directory of its id and has not
\* yet written the configuration file again; no other request is served
WindowOpen(t) ==
    /\ threads[t].op = "inline"
    /\ threads[t].purged
    /\ threads[t].pc \in {"exists248", "makedirs", "write"}
    /\ \A u \in Threads \ {t} : At(u, "idle")

\* the answers a query can get in the present state
Answers(p) ==
    IF p.op = "details"
    THEN {calculation_details(World, p.q, p.ext, row).resp :
            row \in get_calculation_by_id(World, p.q.calculation_id)}
    ELSE IF p.op = "file" THEN {get_file(World, p.q).resp}
    ELSE IF p.op = "download" THEN {get_download_model(World, env, p.q).resp}
    ELSE {get_results_head_drawdown(World, p.q, p.ext)}

\* C17: a query for an id that arrives between the purge of a resubmission and
\* the re-creation of the configuration file is answered 404, never with data
\* and never with a server error.
C17_WindowNotFound ==
    \A t \in Threads :
        WindowOpen(t)
        => \A p \in DetailsQueries \cup FileQueries \cup DownloadQueries
                        \cup HeadDrawdownQueries :
                p.q.calculation_id = threads[t].calculation_id
                => \A resp \in Answers(p) : resp.status = 404

\* what the code keeps of C17: the queries that check for the configuration
\* file first (job details, layer slice) are answered 404 in that window
C17_CheckedQueriesNotFound ==
    \A t \in Threads :
        WindowOpen(t)
        => \A p \in DetailsQueries \cup HeadDrawdownQueries :
                p.q.calculation_id = threads[t].calculation_id
                => \A resp \in Answers(p) : resp = CalculationNotFound

\* directories of cid created before the requests now served were taken
MadeBefore(cid) ==
    env.made[cid] - Cardinality({t \in Threads : threads[t].calculation_id = cid
                                                    /\ threads[t].made})

\* only inline submissions of cid have been taken since it was first submitted,
\* and the worker has recorded nothing meanwhile
FirstSubmissions(cid) ==
    /\ MadeBefore(cid) = 0
    /\ ~env.marked
    /\ \A t \in Threads : threads[t].op = "inline" /\ threads[t].calculation_id = cid

BeforeInsert(t, cid) ==
    /\ threads[t].calculation_id = cid
    /\ At(t, "insert")
    /\ threads[t].wrote

\* C20: an id whose directory holds a configuration file has a record, except
\* between the write of the file and the insert of the same request; so it
\* has one whenever no submission is in progress.
C20_ConfigurationHasRecord ==
    \A cid \in Ids :
        (exists_modflow_file(World, cid) /\ CountFor(registry, cid) = 0)
        => \E t \in Threads : BeforeInsert(t, cid)

\* a first submission has been answered: the file is there and so is the record
C20_Witness ==
    \E cid \in Ids : \E t \in Threads :
        /\ threads[t].calculation_id = cid
        /\ At(t, "done") /\ threads[t].wrote
        /\ \A u \in Threads : threads[u].pc \in {"idle", "done"}
        /\ exists_modflow_file(World, cid)
        /\ CountFor(registry, cid) = 1

====
